---- MODULE Spec2Model ----
(***************************************************************************)
(* Model of src/app.js (Renishaw Probe Routine Builder): the operation     *)
(* tree held in state.tree, its structural mutations, the UI id sets and   *)
(* the persisted snapshot.                                                 *)
(*                                                                         *)
(* A node is a record [id, toolId, params] with an optional field          *)
(* "children" (a sequence of nodes), exactly as the object literals built  *)
(* by addNode.  The display-only fields name/icon/category/description are *)
(* copied from the catalog and never read by the tree store; they are left *)
(* out.  Node objects are never aliased by the program: insertNode only    *)
(* receives an object that addNode has just built or that removeNode has   *)
(* just detached, so the object graph under state.tree is a value tree.    *)
(* uid() draws a random UUID; it is modelled by a counter (fresh ids).     *)
(* renderAll()/refreshTargetParentDropdown() only write the DOM.           *)
(***************************************************************************)
EXTENDS Integers, Sequences, FiniteSets, TLC

VARIABLES tree, collapsed, expanded, targetParentId, showGCode, storage,
          nextUid, last

vars == <<tree, collapsed, expanded, targetParentId, showGCode, storage,
          nextUid, last>>

\* ------------------------------------------------------------------ bounds
\* nodes ever created by the tree store primitives (SpecStore)
MaxNodes == 4

\* nodes ever created through the handlers called with any argument (Spec)
MaxAdded == 2

\* nodes ever created through the user interface (SpecUI)
MaxCards == 2

\* stand-in for the JavaScript value Infinity (default index of insertNode)
Infinity == 1000

\* ------------------------------------------------------------------ ids
UidNames == <<"op_1", "op_2", "op_3", "op_4", "op_5", "op_6", "op_7", "op_8",
              "op_9", "op_10", "op_11", "op_12", "op_13", "op_14", "op_15", "op_16">>

uid(n) == UidNames[n]

\* an id that uid() never produced
MissingId == "op_none"

null == [isNull |-> TRUE]

\* ------------------------------------------------------------------ catalog
\* TOOLS / TOOL_BY_ID: the container flag and defaultParams of every kind.
\* Parameter values are scalars that the program only copies, merges and
\* prints; numbers are written as the text they print as.
TOOL_BY_ID ==
  [ t \in {"folder", "if-block", "while-block", "set-work-offset", "tool-change",
           "rapid-move", "single-touch-axis", "web-pocket", "safe-approach"} |->
    CASE t = "folder" ->
           [id |-> t, container |-> TRUE,
            defaultParams |-> [name |-> "New Section", note |-> ""]]
      [] t = "if-block" ->
           [id |-> t, container |-> TRUE,
            defaultParams |-> [left |-> "#100", op |-> "GT", right |-> "#101"]]
      [] t = "while-block" ->
           [id |-> t, container |-> TRUE,
            defaultParams |-> [left |-> "#100", op |-> "LT", right |-> "10"]]
      [] t = "set-work-offset" ->
           [id |-> t, container |-> FALSE,
            defaultParams |-> [offset |-> "G54", P |-> "1"]]
      [] t = "tool-change" ->
           [id |-> t, container |-> FALSE,
            defaultParams |-> [toolNumber |-> "1", spindleSpeed |-> "1000", coolant |-> "M8"]]
      [] t = "rapid-move" ->
           [id |-> t, container |-> FALSE,
            defaultParams |-> [X |-> "0", Y |-> "0", Z |-> "25"]]
      [] t = "single-touch-axis" ->
           [id |-> t, container |-> FALSE,
            defaultParams |-> [axis |-> "X", distance |-> "-10", feed |-> "10"]]
      [] t = "web-pocket" ->
           [id |-> t, container |-> FALSE,
            defaultParams |-> [mode |-> "auto", X |-> "0", Y |-> "0", Z |-> "",
                               W |-> "20", L |-> "15", feed |-> "10"]]
      [] t = "safe-approach" ->
           [id |-> t, container |-> FALSE,
            defaultParams |-> [X |-> "0", Y |-> "0", Z |-> "25", feed |-> "1000"]] ]

\* TOOL_BY_ID[toolId]?.container
isContainerTool(toolId) ==
  toolId \in DOMAIN TOOL_BY_ID /\ TOOL_BY_ID[toolId].container

\* ------------------------------------------------------------------ arrays
HasChildren(n) == "children" \in DOMAIN n

\* node.children || []
childrenOf(n) == IF HasChildren(n) THEN n.children ELSE <<>>

\* list.findIndex(n => n.id === id), 0-based, -1 when absent
findIndex(list, id) ==
  IF \E k \in 1..Len(list) : list[k].id = id
    THEN (CHOOSE k \in 1..Len(list) :
            list[k].id = id /\ \A j \in 1..(k - 1) : list[j].id # id) - 1
    ELSE -1

\* removal that fills the hole at 0-based position i with the last element
spliceOutSwap(list, i) ==
  [k \in 1..(Len(list) - 1) |-> IF k = i + 1 THEN list[Len(list)] ELSE list[k]]

\* list.splice(i, 1): the list without its element at 0-based position i
spliceOut(list, i) ==
  [k \in 1..(Len(list) - 1) |-> IF k <= i THEN list[k] ELSE list[k + 1]]

\* splice that puts an item given a start at or beyond the end before the
\* last element
spliceInBeforeLast(list, start, item) ==
  LET len == Len(list)
      pos == IF start < 0
               THEN (IF len + start < 0 THEN 0 ELSE len + start)
               ELSE (IF start >= len THEN (IF len = 0 THEN 0 ELSE len - 1) ELSE start)
  IN  [k \in 1..(len + 1) |->
         IF k <= pos THEN list[k] ELSE IF k = pos + 1 THEN item ELSE list[k - 1]]

\* list.splice(start, 0, item): a negative start counts from the end, a start
\* beyond the end is the end
spliceIn(list, start, item) ==
  LET len == Len(list)
      pos == IF start < 0
               THEN (IF len + start < 0 THEN 0 ELSE len + start)
               ELSE (IF start > len THEN len ELSE start)
  IN  [k \in 1..(len + 1) |->
         IF k <= pos THEN list[k] ELSE IF k = pos + 1 THEN item ELSE list[k - 1]]

\* n.children = ch on the object n (adds the field when it is missing)
withChildren(n, ch) ==
  [id |-> n.id, toolId |-> n.toolId, params |-> n.params, children |-> ch]

\* ------------------------------------------------------------------ walk
RECURSIVE getNodeIn(_, _)
\* walk(list, n => n.id === id): the first node with this id in depth-first
\* pre-order, or null
getNodeIn(list, id) ==
  IF list = <<>> THEN null
  ELSE LET n == Head(list)
       IN  IF n.id = id THEN n
           ELSE LET r == getNodeIn(childrenOf(n), id)
                IN  IF r # null THEN r ELSE getNodeIn(Tail(list), id)

getNode(t, id) == getNodeIn(t, id)

RECURSIVE getParentIn(_, _, _)
\* walk with the parent argument: the parent of the first node with this id,
\* null when that node is at root level or when there is none
getParentIn(list, id, parent) ==
  IF list = <<>> THEN null
  ELSE LET n == Head(list)
       IN  IF n.id = id THEN parent
           ELSE IF getNodeIn(childrenOf(n), id) # null
                  THEN getParentIn(childrenOf(n), id, n)
                  ELSE getParentIn(Tail(list), id, parent)

getParent(t, id) == getParentIn(t, id, null)

RECURSIVE idsOf(_)
\* the ids met by walk over the list, in depth-first pre-order
idsOf(list) ==
  IF list = <<>> THEN <<>>
  ELSE <<Head(list).id>> \o idsOf(childrenOf(Head(list))) \o idsOf(Tail(list))

idSet(list) == {idsOf(list)[k] : k \in 1..Len(idsOf(list))}

\* isDescendant that looks at the children of the ancestor only
isDescendantDirect(t, maybeAncestorId, id) ==
  LET anc == getNode(t, maybeAncestorId)
  IN  anc # null /\ \E k \in 1..Len(childrenOf(anc)) : childrenOf(anc)[k].id = id

isDescendant(t, maybeAncestorId, id) ==
  LET anc == getNode(t, maybeAncestorId)
  IN  anc # null /\ getNodeIn(childrenOf(anc), id) # null

\* ------------------------------------------------------------------ tree store
RECURSIVE setNodeIn(_, _, _)
\* the forest after the object that getNode(id) returns has been mutated in
\* place into new (only called when getNode(id) is not null)
setNodeIn(list, id, new) ==
  IF list = <<>> THEN <<>>
  ELSE LET n == Head(list)
       IN  IF n.id = id THEN <<new>> \o Tail(list)
           ELSE IF getNodeIn(childrenOf(n), id) # null
                  THEN <<[n EXCEPT !.children = setNodeIn(n.children, id, new)]>> \o Tail(list)
                  ELSE <<n>> \o setNodeIn(Tail(list), id, new)

RECURSIVE removeNodeIn(_, _)
RECURSIVE removeScan(_, _, _)
\* removeNode(id, list): [list |-> the list afterwards, ret |-> the detached
\* node or null]
removeNodeIn(list, id) ==
  LET i == findIndex(list, id)
  IN  IF i >= 0
        THEN [list |-> spliceOut(list, i), ret |-> list[i + 1]]
        ELSE removeScan(list, id, 1)

\* the loop "for (const n of list) if (n.children) ..." from position k on
removeScan(list, id, k) ==
  IF k > Len(list) THEN [list |-> list, ret |-> null]
  ELSE LET n == list[k]
           r == IF HasChildren(n) THEN removeNodeIn(n.children, id)
                                  ELSE [list |-> <<>>, ret |-> null]
       IN  IF r.ret # null
             THEN [list |-> [list EXCEPT ![k] = [n EXCEPT !.children = r.list]],
                   ret |-> r.ret]
             ELSE removeScan(list, id, k + 1)

\* removeNode that hands the node out and leaves it where it was
removeNodeKeeps(t, id) == [list |-> t, ret |-> removeNodeIn(t, id).ret]

\* removeNode that looks at the root sequence only
removeNodeShallow(t, id) ==
  LET i == findIndex(t, id)
  IN  IF i >= 0 THEN [list |-> spliceOut(t, i), ret |-> t[i + 1]]
                ELSE [list |-> t, ret |-> null]

removeNode(t, id) == removeNodeIn(t, id)

\* insertNode(node, parentId, index): the forest afterwards
insertNode(t, node, parentId, index) ==
  IF parentId = "root" \/ parentId = ""
    THEN spliceIn(t, IF index > Len(t) THEN Len(t) ELSE index, node)
    ELSE LET parent == getNode(t, parentId)
         IN  IF parent = null THEN t
             ELSE LET ch == childrenOf(parent)
                      i  == IF index > Len(ch) THEN Len(ch) ELSE index
                  IN  setNodeIn(t, parentId, withChildren(parent, spliceIn(ch, i, node)))

\* the object literal built by addNode
newNode(id, toolId) ==
  LET t == TOOL_BY_ID[toolId]
  IN  IF t.container
        THEN [id |-> id, toolId |-> t.id, params |-> t.defaultParams, children |-> <<>>]
        ELSE [id |-> id, toolId |-> t.id, params |-> t.defaultParams]

\* { ...n.params, ...patch }
mergeParams(params, patch) ==
  [k \in (DOMAIN params) \cup (DOMAIN patch) |->
     IF k \in DOMAIN patch THEN patch[k] ELSE params[k]]

\* moveNode without the descendant guard
moveNodeUnguarded(t, id, target, index) ==
  IF id = target THEN t
  ELSE LET r == removeNode(t, id)
       IN  IF r.ret = null THEN t
           ELSE insertNode(r.list, r.ret, target, index)

\* the forest after moveNode(id, targetParentId, index)
moveNodeTree(t, id, target, index) ==
  IF id = target THEN t
  ELSE IF target # "root" /\ isDescendant(t, id, target) THEN t
  ELSE LET r == removeNode(t, id)
       IN  IF r.ret = null THEN t
           ELSE insertNode(r.list, r.ret, target, index)

\* reorderSibling without the test j < 0
reorderSiblingNoLowerTest(t, id, dir) ==
  LET parent == getParent(t, id)
      list   == IF parent # null THEN parent.children ELSE t
      i      == findIndex(list, id)
      j      == i + dir
  IN  IF i < 0 \/ j >= Len(list) THEN t
      ELSE LET m    == list[i + 1]
               list2 == spliceIn(spliceOut(list, i), j, m)
           IN  IF parent # null
                 THEN setNodeIn(t, parent.id, [parent EXCEPT !.children = list2])
                 ELSE list2

\* the forest after reorderSibling(id, dir)
reorderSiblingTree(t, id, dir) ==
  LET parent == getParent(t, id)
      list   == IF parent # null THEN parent.children ELSE t
      i      == findIndex(list, id)
      j      == i + dir
  IN  IF i < 0 \/ j < 0 \/ j >= Len(list) THEN t
      ELSE LET m    == list[i + 1]
               list2 == spliceIn(spliceOut(list, i), j, m)
           IN  IF parent # null
                 THEN setNodeIn(t, parent.id, [parent EXCEPT !.children = list2])
                 ELSE list2

\* ------------------------------------------------------------------ persistence
NoStorage == [raw |-> "none"]

\* JSON values as JSON.parse returns them, tagged with what typeof and
\* Array.isArray tell about them
jsonArray(a) == [type |-> "array", items |-> a]

jsonObject == [type |-> "object", items |-> <<>>]

jsonString(v) == [type |-> "string", value |-> v]

jsonBoolean(b) == [type |-> "boolean", value |-> b]

\* Array.from(set): the members of the set, each once
arrayFrom(S) ==
  CHOOSE a \in [1..Cardinality(S) -> S] : {a[k] : k \in 1..Cardinality(S)} = S

\* new Set(array)
newSet(a) == {a[k] : k \in 1..Len(a)}

\* save() that hands the Sets themselves to JSON.stringify, which writes a Set
\* as the empty object
SnapshotOfSets(t, c, e, tp, sg) ==
  [tree |-> jsonArray(t), collapsed |-> jsonObject, expanded |-> jsonObject,
   targetParentId |-> jsonString(tp), showGCode |-> jsonBoolean(sg)]

\* the text that save() writes into localStorage, as JSON.parse reads it back
Snapshot(t, c, e, tp, sg) ==
  [tree |-> jsonArray(t), collapsed |-> jsonArray(arrayFrom(c)),
   expanded |-> jsonArray(arrayFrom(e)), targetParentId |-> jsonString(tp),
   showGCode |-> jsonBoolean(sg)]

\* ------------------------------------------------------------------ state
NoCall == [op |-> "none", id |-> "", toolId |-> "", parentId |-> "", index |-> 0,
           ret |-> null]

Call(op, id, toolId, parentId, index, ret) ==
  [op |-> op, id |-> id, toolId |-> toolId, parentId |-> parentId, index |-> index,
   ret |-> ret]

Init ==
  /\ tree = <<>>
  /\ collapsed = {}
  /\ expanded = {}
  /\ targetParentId = "root"
  /\ showGCode = FALSE
  /\ storage = NoStorage
  /\ nextUid = 1
  /\ last = NoCall

\* save() after the tree has become t
saveTree(t) ==
  storage' = Snapshot(t, collapsed, expanded, targetParentId, showGCode)

\* ------------------------------------------------------------------ handlers
addNode(toolId, parentId) ==
  IF toolId \notin DOMAIN TOOL_BY_ID
    THEN /\ last' = Call("addNode", "", toolId, parentId, Infinity, null)
         /\ UNCHANGED <<tree, collapsed, expanded, targetParentId, showGCode,
                        storage, nextUid>>
    ELSE /\ tree' = insertNode(tree, newNode(uid(nextUid), toolId), parentId, Infinity)
         /\ nextUid' = nextUid + 1
         /\ saveTree(tree')
         /\ last' = Call("addNode", uid(nextUid), toolId, parentId, Infinity, null)
         /\ UNCHANGED <<collapsed, expanded, targetParentId, showGCode>>

\* a direct call of insertNode with a node built as addNode builds it
insertNodeCall(toolId, parentId, index) ==
  /\ tree' = insertNode(tree, newNode(uid(nextUid), toolId), parentId, index)
  /\ nextUid' = nextUid + 1
  /\ last' = Call("insertNode", uid(nextUid), toolId, parentId, index, null)
  /\ UNCHANGED <<collapsed, expanded, targetParentId, showGCode, storage>>

\* a direct call of removeNode
removeNodeCall(id) ==
  LET r == removeNode(tree, id)
  IN  /\ tree' = r.list
      /\ last' = Call("removeNode", id, "", "", 0, r.ret)
      /\ UNCHANGED <<collapsed, expanded, targetParentId, showGCode, storage, nextUid>>

RECURSIVE patchKind(_, _, _)
\* the forest with the patch merged into the params of every node of a kind
patchKind(list, toolId, patch) ==
  IF list = <<>> THEN <<>>
  ELSE LET n  == Head(list)
           n1 == IF n.toolId = toolId
                   THEN [n EXCEPT !.params = mergeParams(n.params, patch)] ELSE n
           n2 == IF HasChildren(n1)
                   THEN [n1 EXCEPT !.children = patchKind(n1.children, toolId, patch)]
                   ELSE n1
       IN  <<n2>> \o patchKind(Tail(list), toolId, patch)

\* updateParams on nodes of one kind that share one params object
updateParamsShared(id, patch) ==
  LET n == getNode(tree, id)
  IN  /\ last' = Call("updateParams", id, "", "", 0, null)
      /\ IF n = null
           THEN UNCHANGED <<tree, storage>>
           ELSE /\ tree' = patchKind(tree, n.toolId, patch)
                /\ saveTree(tree')
      /\ UNCHANGED <<collapsed, expanded, targetParentId, showGCode, nextUid>>

updateParams(id, patch) ==
  LET n == getNode(tree, id)
  IN  /\ last' = Call("updateParams", id, "", "", 0, null)
      /\ IF n = null
           THEN UNCHANGED <<tree, storage>>
           ELSE /\ tree' = setNodeIn(tree, id, [n EXCEPT !.params = mergeParams(n.params, patch)])
                /\ saveTree(tree')
      /\ UNCHANGED <<collapsed, expanded, targetParentId, showGCode, nextUid>>

moveNode(id, target, index) ==
  LET rejected == id = target \/ (target # "root" /\ isDescendant(tree, id, target))
      absent   == removeNode(tree, id).ret = null
  IN  /\ tree' = moveNodeTree(tree, id, target, index)
      /\ last' = Call("moveNode", id, "", target, index, null)
      /\ IF rejected \/ absent THEN UNCHANGED storage ELSE saveTree(tree')
      /\ UNCHANGED <<collapsed, expanded, targetParentId, showGCode, nextUid>>

\* deleteNode(id); ok is the answer of window.confirm
deleteNode(id, ok) ==
  LET n == getNode(tree, id)
  IN  IF n = null \/ ~ok
        THEN /\ last' = Call("deleteNode-cancelled", id, "", "", 0, null)
             /\ UNCHANGED <<tree, collapsed, expanded, targetParentId, showGCode,
                            storage, nextUid>>
        ELSE /\ tree' = removeNode(tree, id).list
             /\ expanded' = expanded \ {id}
             /\ collapsed' = collapsed \ {id}
             /\ storage' = Snapshot(tree', collapsed', expanded', targetParentId, showGCode)
             /\ last' = Call("deleteNode", id, "", "", 0, null)
             /\ UNCHANGED <<targetParentId, showGCode, nextUid>>

reorderSibling(id, dir) ==
  LET parent == getParent(tree, id)
      list   == IF parent # null THEN parent.children ELSE tree
      i      == findIndex(list, id)
      j      == i + dir
  IN  /\ tree' = reorderSiblingTree(tree, id, dir)
      /\ last' = Call("reorderSibling", id, "", "", dir, null)
      /\ IF i < 0 \/ j < 0 \/ j >= Len(list) THEN UNCHANGED storage ELSE saveTree(tree')
      /\ UNCHANGED <<collapsed, expanded, targetParentId, showGCode, nextUid>>

setTargetParent(id) ==
  /\ targetParentId' = (IF id = "" THEN "root" ELSE id)
  /\ storage' = Snapshot(tree, collapsed, expanded, targetParentId', showGCode)
  /\ last' = Call("setTargetParent", id, "", "", 0, null)
  /\ UNCHANGED <<tree, collapsed, expanded, showGCode, nextUid>>

toggleCollapsed(id) ==
  /\ collapsed' = (IF id \in collapsed THEN collapsed \ {id} ELSE collapsed \cup {id})
  /\ storage' = Snapshot(tree, collapsed', expanded, targetParentId, showGCode)
  /\ last' = Call("toggleCollapsed", id, "", "", 0, null)
  /\ UNCHANGED <<tree, expanded, targetParentId, showGCode, nextUid>>

toggleExpanded(id) ==
  /\ expanded' = (IF id \in expanded THEN expanded \ {id} ELSE expanded \cup {id})
  /\ storage' = Snapshot(tree, collapsed, expanded', targetParentId, showGCode)
  /\ last' = Call("toggleExpanded", id, "", "", 0, null)
  /\ UNCHANGED <<tree, collapsed, targetParentId, showGCode, nextUid>>

\* the click handler of the G-code toggle button
toggleShowGCode ==
  /\ showGCode' = ~showGCode
  /\ storage' = Snapshot(tree, collapsed, expanded, targetParentId, showGCode')
  /\ last' = Call("toggleShowGCode", "", "", "", 0, null)
  /\ UNCHANGED <<tree, collapsed, expanded, targetParentId, nextUid>>

\* load(): every field of the stored object that has the right type replaces
\* the field of state
load ==
  /\ last' = Call("load", "", "", "", 0, null)
  /\ IF storage = NoStorage
       THEN UNCHANGED <<tree, collapsed, expanded, targetParentId, showGCode>>
       ELSE /\ tree' = (IF storage.tree.type = "array" THEN storage.tree.items ELSE tree)
            /\ collapsed' = (IF storage.collapsed.type = "array"
                               THEN newSet(storage.collapsed.items) ELSE collapsed)
            /\ expanded' = (IF storage.expanded.type = "array"
                              THEN newSet(storage.expanded.items) ELSE expanded)
            /\ targetParentId' = (IF storage.targetParentId.type = "string"
                                    THEN storage.targetParentId.value ELSE targetParentId)
            /\ showGCode' = (IF storage.showGCode.type = "boolean"
                               THEN storage.showGCode.value ELSE showGCode)
  /\ UNCHANGED <<storage, nextUid>>

\* isDescendant(maybeAncestorId, id) called on the current forest
isDescendantCall(maybeAncestorId, id) ==
  /\ last' = Call("isDescendant", id, "", maybeAncestorId, 0,
                  isDescendant(tree, maybeAncestorId, id))
  /\ UNCHANGED <<tree, collapsed, expanded, targetParentId, showGCode, storage, nextUid>>

\* ------------------------------------------------------------------ inputs
\* kinds offered to addNode: a container, a leaf, and a key the catalog does
\* not have
ToolInputs == {"folder", "rapid-move", "no-such-tool"}

CatalogInputs == ToolInputs \cap DOMAIN TOOL_BY_ID

IdInputs == idSet(tree) \cup {MissingId}

\* destinations given to insertNode: root, the falsy id, an id of the forest,
\* an id that resolves to nothing
ParentInputs == idSet(tree) \cup {"root", "", MissingId}

\* destinations given to the handlers
TargetInputs == idSet(tree) \cup {"root", MissingId}

IndexInputs == {-1, 0, 1, Infinity}

MoveIndexInputs == {-1, Infinity}

PatchInputs == {[name |-> "Setup A"]}

\* eachContainer: the ids of the nodes whose kind is a container
containerIds(t) ==
  {id \in idSet(t) : isContainerTool(getNode(t, id).toolId)}

\* buildMoveOptions(nodeId): root and every container that is neither the
\* node nor one of its descendants
moveOptions(t, nodeId) ==
  {"root"} \cup {c \in containerIds(t) : c # nodeId /\ ~isDescendant(t, nodeId, c)}

\* ------------------------------------------------------------------ tree store API
ApiAddNode ==
  \E toolId \in ToolInputs, parentId \in TargetInputs :
    /\ nextUid <= MaxAdded
    /\ addNode(toolId, parentId)

ApiInsertNode ==
  \E toolId \in CatalogInputs, parentId \in ParentInputs, index \in IndexInputs :
    /\ nextUid <= MaxNodes
    /\ insertNodeCall(toolId, parentId, index)

ApiRemoveNode == \E id \in IdInputs : removeNodeCall(id)

ApiUpdateParams == \E id \in IdInputs, patch \in PatchInputs : updateParams(id, patch)

ApiMoveNode ==
  \E id \in IdInputs, target \in TargetInputs, index \in MoveIndexInputs :
    moveNode(id, target, index)

ApiDeleteNode == \E id \in IdInputs, ok \in BOOLEAN : deleteNode(id, ok)

ApiReorderSibling == \E id \in IdInputs, dir \in {-1, 1, 2} : reorderSibling(id, dir)

Next ==
  \/ ApiAddNode
  \/ ApiUpdateParams
  \/ ApiMoveNode
  \/ ApiDeleteNode
  \/ ApiReorderSibling

Spec == Init /\ [][Next]_vars

\* ------------------------------------------------------------------ UI handlers
\* toolbox card: addNode(t.id) into the current default destination
UiAddNode ==
  \E toolId \in CatalogInputs :
    /\ nextUid <= MaxCards
    /\ addNode(toolId, targetParentId)

\* move menu entry: moveNode(nodeId, destination)
UiMoveNode ==
  \E id \in idSet(tree) : \E target \in moveOptions(tree, id) :
    moveNode(id, target, Infinity)

\* delete button and the confirmation prompt
UiDeleteNode == \E id \in idSet(tree), ok \in BOOLEAN : deleteNode(id, ok)

\* move up / move down buttons
UiReorderSibling == \E id \in idSet(tree), dir \in {-1, 1} : reorderSibling(id, dir)

\* "Add to" dropdown: root or one of the containers
UiSetTargetParent ==
  \E id \in containerIds(tree) \cup {"root"} : setTargetParent(id)

\* collapse button, shown on container cards
UiToggleCollapsed == \E id \in containerIds(tree) : toggleCollapsed(id)

\* details button, shown on every card
UiToggleExpanded == \E id \in idSet(tree) : toggleExpanded(id)

NextUI ==
  \/ UiAddNode
  \/ UiMoveNode
  \/ UiDeleteNode
  \/ UiReorderSibling
  \/ UiSetTargetParent
  \/ UiToggleCollapsed
  \/ UiToggleExpanded

\* ------------------------------------------------------------------ primitives
\* insertNode and removeNode called on their own, as the tree store exposes
\* them; neither saves
NextStore ==
  \/ ApiInsertNode
  \/ ApiRemoveNode

SpecStore == Init /\ [][NextStore]_vars

SpecUI == Init /\ [][NextUI]_vars

\* ------------------------------------------------------------------ emitter
\* An emitted line is the record [indent, node, kind, num, arg]: indent counts
\* the leading "  " units, kind/num/arg stand for the template text (num is
\* the label number or the loop index), node is the id of the node whose
\* gcode callback produced the line ("" for header and footer).  node is not
\* part of the text; it is kept to state properties about it.
Line(indent, node, kind, num, arg) ==
  [indent |-> indent, node |-> node, kind |-> kind, num |-> num, arg |-> arg]

\* createEmitContext(indent, labelSeed, loopDepth)
createEmitContext(indent, labelSeed, loopDepth) ==
  [indent |-> indent, labelSeed |-> labelSeed, loopDepth |-> loopDepth]

\* loopIndex()
loopIndex(ctx) == IF ctx.loopDepth + 1 < 9 THEN ctx.loopDepth + 1 ELSE 9

\* indented that carries loopDepth over as it is
indentedSameDepth(ctx, delta) ==
  createEmitContext(ctx.indent + delta, ctx.labelSeed, ctx.loopDepth)

\* indented(delta)
indented(ctx, delta) ==
  createEmitContext(ctx.indent + delta, ctx.labelSeed,
                    ctx.loopDepth + (IF delta > 0 THEN 1 ELSE 0))

\* arr.map(l => ctx.line(l)): "  ".repeat(ctx.indent) is put in front of every
\* line, on top of the indentation the line already carries
lineAll(ctx, lines) ==
  [k \in 1..Len(lines) |-> [lines[k] EXCEPT !.indent = @ + ctx.indent]]

\* the lines returned by the gcode callback of a kind without children
leafLines(node) ==
  IF node.toolId = "tool-change"
    THEN << Line(0, node.id, "op", 1, node.params), Line(0, node.id, "op", 2, node.params),
            Line(0, node.id, "op", 3, node.params), Line(0, node.id, "blank", 0, node.params) >>
    ELSE << Line(0, node.id, "op", 1, node.params), Line(0, node.id, "blank", 0, node.params) >>

RECURSIVE emitNode(_, _)
RECURSIVE emitChildren(_, _, _)
\* emitNode(node, ctx): [lines |-> the returned lines, seed |-> ctx.labelSeed
\* after the call].  The callback receives the copy {...ctx, nextLabel,
\* loopIndex}: nextLabel() advances ctx.labelSeed of the original object, while
\* the copy handed on to emitChildren keeps the labelSeed it was copied with.
emitNode(node, ctx) ==
  IF node.toolId \notin DOMAIN TOOL_BY_ID
    THEN [lines |-> << Line(ctx.indent, node.id, "unknown", 0, [toolId |-> node.toolId]) >>,
          seed  |-> ctx.labelSeed]
    ELSE LET copy == ctx
             p    == node.params
         IN  CASE node.toolId = "folder" ->
                    [lines |-> lineAll(ctx,
                                 << Line(0, node.id, "banner", 0, p) >>
                                 \o emitChildren(node, copy, 0)
                                 \o << Line(0, node.id, "end-banner", 0, p),
                                       Line(0, node.id, "blank", 0, p) >>),
                     seed  |-> ctx.labelSeed]
               [] node.toolId = "if-block" ->
                    LET lid == ctx.labelSeed
                    IN  [lines |-> lineAll(ctx,
                                     << Line(0, node.id, "if-goto", lid, p),
                                        Line(0, node.id, "comment", 0, p),
                                        Line(0, node.id, "goto-end", lid, p),
                                        Line(0, node.id, "label", lid, p) >>
                                     \o emitChildren(node, copy, 1)
                                     \o << Line(0, node.id, "label-end", lid, p),
                                           Line(0, node.id, "blank", 0, p) >>),
                         seed  |-> ctx.labelSeed + 1]
               [] node.toolId = "while-block" ->
                    LET i == loopIndex(ctx)
                    IN  [lines |-> lineAll(ctx,
                                     << Line(0, node.id, "while-do", i, p) >>
                                     \o emitChildren(node, copy, 1)
                                     \o << Line(0, node.id, "end", i, p),
                                           Line(0, node.id, "blank", 0, p) >>),
                         seed  |-> ctx.labelSeed]
               [] OTHER ->
                    [lines |-> lineAll(ctx, leafLines(node)), seed |-> ctx.labelSeed]

RECURSIVE emitList(_, _, _)
RECURSIVE emitListThreaded(_, _, _)
\* the loop of emitChildren with one label counter handed from child to child
emitListThreaded(list, ctx, indentDelta) ==
  IF list = <<>> THEN <<>>
  ELSE LET r == emitNode(Head(list), indented(ctx, indentDelta))
       IN  r.lines \o emitListThreaded(Tail(list), [ctx EXCEPT !.labelSeed = r.seed],
                                       indentDelta)

\* the loop of emitChildren from the first element of list on: every child
\* gets its own ctx.indented(indentDelta)
emitList(list, ctx, indentDelta) ==
  IF list = <<>> THEN <<>>
  ELSE emitNode(Head(list), indented(ctx, indentDelta)).lines
       \o emitList(Tail(list), ctx, indentDelta)

\* emitChildren that walks the children from the last to the first
emitChildrenBackwards(node, ctx, indentDelta) ==
  LET ch == childrenOf(node)
  IN  emitList([k \in 1..Len(ch) |-> ch[Len(ch) + 1 - k]], ctx, indentDelta)

emitChildren(node, ctx, indentDelta) == emitList(childrenOf(node), ctx, indentDelta)

RECURSIVE emitRoots(_, _)
\* the loop of generateGCode over state.tree: all root nodes share one ctx
emitRoots(list, ctx) ==
  IF list = <<>> THEN <<>>
  ELSE LET r == emitNode(Head(list), ctx)
       IN  r.lines \o emitRoots(Tail(list), [ctx EXCEPT !.labelSeed = r.seed])

\* the header lines; the third one carries new Date().toLocaleDateString()
header(date) ==
  [k \in 1..7 |-> Line(0, "", "header", k, IF k = 3 THEN [date |-> date] ELSE [date |-> ""])]

footer == [k \in 1..4 |-> Line(0, "", "footer", k, [date |-> ""])]

RECURSIVE emitRootsUntilUnknown(_, _)
\* the loop over state.tree given up at the first root node whose toolId does
\* not resolve
emitRootsUntilUnknown(list, ctx) ==
  IF list = <<>> THEN <<>>
  ELSE LET r == emitNode(Head(list), ctx)
       IN  IF Head(list).toolId \notin DOMAIN TOOL_BY_ID THEN r.lines
           ELSE r.lines \o emitRootsUntilUnknown(Tail(list), [ctx EXCEPT !.labelSeed = r.seed])

bodyOfAborting(t) == emitRootsUntilUnknown(t, createEmitContext(0, 1000, 0))

bodyOf(t) == emitRoots(t, createEmitContext(0, 1000, 0))

\* generateGCode(): the lines of the document (joined with "\n" by the code)
generateGCode(t, date) == header(date) \o bodyOf(t) \o footer

\* generateGCode that takes the root nodes out of state.tree as it emits them
generateGCodeCallConsuming(date) ==
  /\ last' = Call("generateGCode", "", "", "", 0, generateGCode(tree, date))
  /\ tree' = <<>>
  /\ UNCHANGED <<collapsed, expanded, targetParentId, showGCode, storage, nextUid>>

\* a call of generateGCode on the current state
generateGCodeCall(date) ==
  /\ last' = Call("generateGCode", "", "", "", 0, generateGCode(tree, date))
  /\ UNCHANGED <<tree, collapsed, expanded, targetParentId, showGCode, storage, nextUid>>

\* ------------------------------------------------------------------ forests
\* largest number of nodes of the forests handed to the emitter
MaxEmitNodes == 3

\* deepest chain of nested blocks handed to the emitter
MaxChain == 10

EmitKinds == {"folder", "if-block", "while-block", "rapid-move", "no-such-tool"}

\* a node of the given kind as it is found in state.tree: built by addNode, or,
\* for a key the catalog does not have, read back from storage
nodeOfKind(id, kind, kids) ==
  IF kind \in DOMAIN TOOL_BY_ID
    THEN IF TOOL_BY_ID[kind].container THEN withChildren(newNode(id, kind), kids)
                                       ELSE newNode(id, kind)
    ELSE IF kids = <<>> THEN [id |-> id, toolId |-> kind, params |-> [X |-> "0"]]
                        ELSE [id |-> id, toolId |-> kind, params |-> [X |-> "0"],
                              children |-> kids]

RECURSIVE forestsOf(_, _, _)
\* the forests of exactly n nodes over the kinds, ids given in pre-order from
\* uid(first) on; only containers and unknown kinds have children
forestsOf(n, first, kinds) ==
  IF n = 0 THEN { <<>> }
  ELSE UNION { UNION { { <<nodeOfKind(uid(first), kind, kids)>> \o rest :
                           kids \in (IF k = 1 THEN { <<>> }
                                     ELSE IF isContainerTool(kind) \/ kind \notin DOMAIN TOOL_BY_ID
                                            THEN forestsOf(k - 1, first + 1, kinds)
                                            ELSE {}),
                           rest \in forestsOf(n - k, first + k, kinds) } :
                       kind \in kinds } :
               k \in 1..n }

RECURSIVE chainsOf(_, _)
\* the chains of d nested if-block / while-block nodes
chainsOf(d, first) ==
  IF d = 0 THEN { <<>> }
  ELSE { <<nodeOfKind(uid(first), kind, kids)>> :
           kind \in {"if-block", "while-block"}, kids \in chainsOf(d - 1, first + 1) }

EmitForests ==
  UNION { forestsOf(n, 1, EmitKinds) : n \in 0..MaxEmitNodes }
  \cup UNION { chainsOf(d, 1) : d \in 1..MaxChain }

Dates == {"2026-01-01", "2026-01-02"}

\* the program with the forest t built and saved
InitWith(t) ==
  /\ tree = t
  /\ collapsed = {}
  /\ expanded = {}
  /\ targetParentId = "root"
  /\ showGCode = FALSE
  /\ storage = Snapshot(t, {}, {}, "root", FALSE)
  /\ nextUid = Len(idsOf(t)) + 1
  /\ last = NoCall

InitEmit == \E t \in EmitForests : InitWith(t)

GenerateGCode == \E date \in Dates : generateGCodeCall(date)

NextEmit == GenerateGCode

SpecEmit == InitEmit /\ [][NextEmit]_vars

\* ------------------------------------------------------------------ single calls
\* largest number of nodes of the forests a single call is applied to
MaxCallNodes == 3

CallKinds == {"folder", "rapid-move"}

CallForests == UNION { forestsOf(n, 1, CallKinds) : n \in 0..MaxCallNodes }

InitCall == \E t \in CallForests : InitWith(t)

\* one call of the tree store or of a handler on the forest drawn by InitCall
CallAddNode ==
  /\ last.op = "none"
  /\ \E toolId \in ToolInputs, parentId \in ParentInputs : addNode(toolId, parentId)

CallInsertNode ==
  /\ last.op = "none"
  /\ \E toolId \in CatalogInputs, parentId \in ParentInputs, index \in IndexInputs :
       insertNodeCall(toolId, parentId, index)

CallRemoveNode == last.op = "none" /\ \E id \in IdInputs : removeNodeCall(id)

CallMoveNode ==
  /\ last.op = "none"
  /\ \E id \in IdInputs, target \in TargetInputs, index \in IndexInputs :
       moveNode(id, target, index)

CallUpdateParams ==
  last.op = "none" /\ \E id \in IdInputs, patch \in PatchInputs : updateParams(id, patch)

CallReorderSibling ==
  last.op = "none" /\ \E id \in IdInputs, dir \in {-1, 1} : reorderSibling(id, dir)

CallIsDescendant ==
  /\ last.op = "none"
  /\ \E maybeAncestorId \in IdInputs, id \in IdInputs : isDescendantCall(maybeAncestorId, id)

NextCall ==
  \/ CallAddNode
  \/ CallInsertNode
  \/ CallRemoveNode
  \/ CallMoveNode
  \/ CallUpdateParams
  \/ CallReorderSibling
  \/ CallIsDescendant

SpecCall == InitCall /\ [][NextCall]_vars

\* ------------------------------------------------------------------ save and load
\* largest number of nodes created while saving and loading
MaxSaved == 2

\* toolbox card: a node added and saved
PersistAddNode ==
  \E toolId \in CatalogInputs :
    /\ nextUid <= MaxSaved
    /\ addNode(toolId, targetParentId)

\* a node put into the forest by insertNode alone, which does not save
PersistInsertNode ==
  \E toolId \in CatalogInputs, parentId \in containerIds(tree) \cup {"root"} :
    /\ nextUid <= MaxSaved
    /\ insertNodeCall(toolId, parentId, Infinity)

PersistUpdateParams == \E id \in idSet(tree), patch \in PatchInputs : updateParams(id, patch)

UiToggleShowGCode == toggleShowGCode

Load == load

NextPersist ==
  \/ PersistAddNode
  \/ PersistInsertNode
  \/ PersistUpdateParams
  \/ UiSetTargetParent
  \/ UiToggleCollapsed
  \/ UiToggleExpanded
  \/ UiToggleShowGCode
  \/ Load

SpecPersist == Init /\ [][NextPersist]_vars

\* ------------------------------------------------------------------ properties
NoDuplicates(seq) == \A i, j \in 1..Len(seq) : i # j => seq[i] # seq[j]

\* the sequence a destination id denotes for insertNode: the root sequence,
\* or the children of the node it resolves to
destSeq(t, parentId) ==
  IF parentId = "root" \/ parentId = "" THEN t ELSE childrenOf(getNode(t, parentId))

resolves(t, parentId) ==
  parentId = "root" \/ parentId = "" \/ getNode(t, parentId) # null

\* C1: after any sequence of addNode, moveNode, deleteNode, reorderSibling and
\* updateParams calls from the empty forest, every id occurs exactly once in
\* the forest and no node is its own descendant.
C1_UniqueIds ==
  /\ NoDuplicates(idsOf(tree))
  /\ \A id \in idSet(tree) : ~isDescendant(tree, id, id)

C1_Witness ==
  /\ last.op = "moveNode"
  /\ Len(tree) = 1
  /\ Len(idsOf(tree)) = 2
  /\ last.id = tree[1].children[1].id

\* C2: moveNode(id, id, index) and moveNode(id, d, index) with d a descendant
\* of id leave the forest exactly as it was, for every index.
C2_RejectedMoveUnchanged ==
  [][(/\ last'.op = "moveNode"
      /\ \/ last'.id = last'.parentId
         \/ isDescendant(tree, last'.id, last'.parentId))
     => tree' = tree]_vars

C2_Witness ==
  /\ last.op = "moveNode"
  /\ isDescendant(tree, last.id, last.parentId)

\* C3: moveNode keeps the set of node ids of the forest and the subtree rooted
\* at id, for every id, targetParentId and index, also when targetParentId
\* resolves to no node.
C3_MoveNodeKeepsNodes ==
  [][last'.op = "moveNode"
     => /\ idSet(tree') = idSet(tree)
        /\ getNode(tree', last'.id) = getNode(tree, last'.id)]_vars

\* C4: in every reachable state a node has a children sequence if and only if
\* the catalog entry of its toolId is a container.
C4_ChildrenIffContainer ==
  \A id \in idSet(tree) :
    HasChildren(getNode(tree, id)) <=> isContainerTool(getNode(tree, id).toolId)

\* C5: insertNode(node, parentId, index) leaves the forest unchanged whenever
\* parentId is neither root/absent nor the id of an existing container node.
C5_InsertNeedsContainer ==
  [][(/\ last'.op = "insertNode"
      /\ last'.parentId \notin {"root", ""}
      /\ \/ getNode(tree, last'.parentId) = null
         \/ ~isContainerTool(getNode(tree, last'.parentId).toolId))
     => tree' = tree]_vars

\* C6: insertNode with an index greater than or equal to the length of the
\* destination sequence (root, or the children of the node parentId resolves
\* to) appends the node as the last element; the earlier elements keep their
\* positions.
C6_InsertClampsToAppend ==
  [][(/\ last'.op = "insertNode"
      /\ resolves(tree, last'.parentId)
      /\ last'.index >= Len(destSeq(tree, last'.parentId)))
     => destSeq(tree', last'.parentId) =
          Append(destSeq(tree, last'.parentId), newNode(last'.id, last'.toolId))]_vars

C6_Witness ==
  /\ last.op = "insertNode"
  /\ last.parentId \notin {"root", ""}
  /\ getNode(tree, last.parentId) # null
  /\ isContainerTool(getNode(tree, last.parentId).toolId)
  /\ LET ch == getNode(tree, last.parentId).children
     IN  /\ Len(ch) >= 2
         /\ ch[Len(ch)].id = last.id
         /\ last.index >= Len(ch) - 1

\* C7: insertNode clamps its index to [0, length]: the inserted node ends at
\* position min(max(index, 0), length) of the destination sequence, so at
\* position 0 for every negative index.
C7_InsertClampsBelow ==
  [][(/\ last'.op = "insertNode"
      /\ resolves(tree, last'.parentId))
     => LET len == Len(destSeq(tree, last'.parentId))
            lo  == IF last'.index < 0 THEN 0 ELSE last'.index
            pos == IF lo > len THEN len ELSE lo
        IN  findIndex(destSeq(tree', last'.parentId), last'.id) = pos]_vars

\* C8: addNode(toolId) with a toolId of the catalog and the current default
\* destination adds exactly one node with a fresh id, and getNode on that id
\* returns that node with the catalog's defaultParams.
C8_AddNodeIsFound ==
  [][(/\ last'.op = "addNode"
      /\ last'.toolId \in DOMAIN TOOL_BY_ID
      /\ last'.parentId = targetParentId)
     => /\ last'.id \notin idSet(tree)
        /\ idSet(tree') = idSet(tree) \cup {last'.id}
        /\ Len(idsOf(tree')) = Len(idsOf(tree)) + 1
        /\ getNode(tree', last'.id) # null
        /\ getNode(tree', last'.id).params = TOOL_BY_ID[last'.toolId].defaultParams]_vars

\* C9: removeNode(id) on a node of the forest detaches and returns the whole
\* subtree rooted at id: afterwards id and its descendants are not found and
\* every other node is; for an id not in the forest it returns null and
\* changes nothing.
C9_RemoveDetachesSubtree ==
  [][last'.op = "removeNode"
     => LET n == getNode(tree, last'.id)
        IN  IF n = null
              THEN last'.ret = null /\ tree' = tree
              ELSE /\ last'.ret = n
                   /\ \A x \in idSet(<<n>>) : getNode(tree', x) = null
                   /\ \A x \in idSet(tree) \ idSet(<<n>>) :
                        /\ getNode(tree', x) # null
                        /\ getNode(tree', x).toolId = getNode(tree, x).toolId
                        /\ getNode(tree', x).params = getNode(tree, x).params]_vars

C9_Witness ==
  /\ last.op = "removeNode"
  /\ last.ret # null
  /\ childrenOf(last.ret) # <<>>
  /\ tree # <<>>

\* C10: if expanded and collapsed hold only ids of nodes of the forest, they
\* still do after a confirmed deleteNode(id).
C10_DeletePrunesMetadata ==
  [][(/\ last'.op = "deleteNode"
      /\ (expanded \cup collapsed) \subseteq idSet(tree))
     => (expanded' \cup collapsed') \subseteq idSet(tree')]_vars

\* ------------------------------------------------------------------ emitter properties
Generated == last.op = "generateGCode"

\* the positions of the lines that node x contributed to document d
linesOf(d, x) == {k \in 1..Len(d) : d[k].node = x}

\* the position of the line of kind(s) kinds that node x contributed
lineAt(d, x, kinds) == CHOOSE k \in 1..Len(d) : d[k].node = x /\ d[k].kind \in kinds

OpenKinds == {"banner", "label", "while-do"}

CloseKinds == {"end-banner", "label-end", "end"}

\* the first line of node x in document d (its own opening line)
firstLine(d, x) == d[CHOOSE k \in linesOf(d, x) : \A j \in linesOf(d, x) : k <= j]

ifNodes(t) == {x \in idSet(t) : getNode(t, x).toolId = "if-block"}

whileNodes(t) == {x \in idSet(t) : getNode(t, x).toolId = "while-block"}

unknownNodes(t) == {x \in idSet(t) : getNode(t, x).toolId \notin DOMAIN TOOL_BY_ID}

\* the lines of document d between header and footer
bodyLines(d) == SubSeq(d, 8, Len(d) - 4)

\* d without the lines of node x
withoutNode(d, x) == SelectSeq(d, LAMBDA l : l.node # x)

RECURSIVE emittedIds(_)
\* the ids in depth-first pre-order, not descending below a node whose kind
\* is not a container of the catalog
emittedIds(list) ==
  IF list = <<>> THEN <<>>
  ELSE <<Head(list).id>>
       \o (IF isContainerTool(Head(list).toolId)
             THEN emittedIds(childrenOf(Head(list))) ELSE <<>>)
       \o emittedIds(Tail(list))

\* the position of the first line of node x in document d
firstAt(d, x) == CHOOSE k \in linesOf(d, x) : \A j \in linesOf(d, x) : k <= j

\* the nodes of document d appear, by their first lines, in the order of ids
appearInOrder(d, ids) ==
  /\ {d[k].node : k \in 1..Len(d)} = {ids[i] : i \in 1..Len(ids)}
  /\ \A i \in 1..Len(ids), j \in 1..Len(ids) :
       i < j => firstAt(d, ids[i]) < firstAt(d, ids[j])

\* C11: in the output of generateGCode two if-block nodes of which one is an
\* ancestor of the other emit different label numbers.
C11_LabelsUniqueOnPath ==
  Generated =>
    \A a \in ifNodes(tree), b \in ifNodes(tree) :
      (isDescendant(tree, a, b) /\ linesOf(last.ret, a) # {} /\ linesOf(last.ret, b) # {})
        => last.ret[lineAt(last.ret, a, {"label"})].num
             # last.ret[lineAt(last.ret, b, {"label"})].num

\* C12: every line emitted for a child is indented exactly one level deeper
\* than the opening line of its immediate container, and a grandchild's line
\* exactly two levels deeper than the line of the container two levels up.
C12_IndentFollowsNesting ==
  Generated =>
    \A c \in idSet(tree) :
      LET p == getParent(tree, c)
      IN  (p # null /\ linesOf(last.ret, c) # {})
            => /\ firstLine(last.ret, c).indent = firstLine(last.ret, p.id).indent + 1
               /\ LET g == getParent(tree, p.id)
                  IN  g # null =>
                        firstLine(last.ret, c).indent = firstLine(last.ret, g.id).indent + 2

\* C13: a root-level while-block emits DO1/END1, a while-block that
\* is a direct child of another while-block emits DO2/END2, and every
\* while-block opens and closes with the same index in 1..9.
C13_ChildLoopIsTwo ==
  Generated =>
    \A w \in whileNodes(tree) :
      linesOf(last.ret, w) # {} =>
        LET open  == last.ret[lineAt(last.ret, w, {"while-do"})].num
            close == last.ret[lineAt(last.ret, w, {"end"})].num
            p     == getParent(tree, w)
        IN  /\ open = close
            /\ open \in 1..9
            /\ p = null => open = 1
            /\ (p # null /\ p.toolId = "while-block") => open = 2

\* C14: a node whose toolId is not in the catalog, reached by the emission
\* (all its ancestors are containers of the catalog), contributes exactly one diagnostic line and
\* none of its descendants contributes a line; all other lines are those of
\* the document of the forest without that node; the document starts with the
\* header and ends with the footer.
C14_UnknownNodeOneLine ==
  Generated =>
    /\ \E date \in Dates : SubSeq(last.ret, 1, 7) = header(date)
    /\ SubSeq(last.ret, Len(last.ret) - 3, Len(last.ret)) = footer
    /\ \A x \in unknownNodes(tree) :
         (\A a \in idSet(tree) : isDescendant(tree, a, x) => isContainerTool(getNode(tree, a).toolId))
           => /\ Cardinality(linesOf(last.ret, x)) = 1
              /\ last.ret[lineAt(last.ret, x, {"unknown"})].arg = [toolId |-> getNode(tree, x).toolId]
              /\ \A y \in idSet(tree) : isDescendant(tree, x, y) => linesOf(last.ret, y) = {}
              /\ \E date \in Dates :
                   withoutNode(last.ret, x) = generateGCode(removeNode(tree, x).list, date)

C14_Witness ==
  /\ Generated
  /\ Len(tree) = 1
  /\ tree[1].toolId = "while-block"
  /\ Len(tree[1].children) = 2
  /\ tree[1].children[1].toolId \notin DOMAIN TOOL_BY_ID
  /\ tree[1].children[2].toolId = "rapid-move"

\* C17: the document is the header, then the emission of the root nodes in
\* forest order, then the footer; nodes are emitted in depth-first pre-order,
\* and all lines of the descendants of a container lie between the
\* container's opening line and its closing line.
C17_DocumentOrder ==
  Generated =>
    /\ \E date \in Dates : SubSeq(last.ret, 1, 7) = header(date)
    /\ SubSeq(last.ret, Len(last.ret) - 3, Len(last.ret)) = footer
    /\ bodyLines(last.ret) = bodyOf(tree)
    /\ appearInOrder(bodyLines(last.ret), emittedIds(tree))
    /\ \A c \in idSet(tree) :
         (isContainerTool(getNode(tree, c).toolId) /\ linesOf(last.ret, c) # {})
           => /\ lineAt(last.ret, c, OpenKinds) < lineAt(last.ret, c, CloseKinds)
              /\ \A y \in idSet(tree) :
                   isDescendant(tree, c, y) =>
                     \A k \in linesOf(last.ret, y) :
                       /\ lineAt(last.ret, c, OpenKinds) < k
                       /\ k < lineAt(last.ret, c, CloseKinds)

C17_Witness ==
  /\ Generated
  /\ Len(tree) = 2
  /\ tree[1].toolId = "folder"
  /\ Len(tree[1].children) = 1
  /\ tree[2].toolId = "rapid-move"

\* C18: generateGCode leaves the forest, the id sets and targetParentId
\* unchanged; two calls with no mutation in between return the same body
\* lines, and the first label allocated by every call is 1000.
C18_GenerateIsReadOnly ==
  [][last'.op = "generateGCode"
     => /\ UNCHANGED <<tree, collapsed, expanded, targetParentId>>
        /\ last.op = "generateGCode" => bodyLines(last'.ret) = bodyLines(last.ret)
        /\ \A k \in 1..Len(last'.ret) :
             (/\ last'.ret[k].kind = "if-goto"
              /\ \A j \in 1..(k - 1) : last'.ret[j].kind # "if-goto")
               => last'.ret[k].num = 1000]_vars

C18_Witness ==
  /\ Generated
  /\ Len(tree) = 2
  /\ tree[1].toolId = "if-block"
  /\ tree[2].toolId = "if-block"
  /\ last.ret[3].arg.date = "2026-01-02"

\* ------------------------------------------------------------------ sibling order
\* the ids of the children of pid ("root": of the root nodes), in order
kidIds(t, pid) ==
  LET l == IF pid = "root" THEN t ELSE childrenOf(getNode(t, pid))
  IN  [k \in 1..Len(l) |-> l[k].id]

\* the id of the parent of a node of the forest, "root" for a root node
parentIdOf(t, id) == LET p == getParent(t, id) IN IF p = null THEN "root" ELSE p.id

positionIn(seq, x) == CHOOSE k \in 1..Len(seq) : seq[k] = x

swapped(seq, i, j) ==
  [k \in 1..Len(seq) |-> IF k = i THEN seq[j] ELSE IF k = j THEN seq[i] ELSE seq[k]]

\* a before b among their common siblings
before(t, a, b) ==
  positionIn(kidIds(t, parentIdOf(t, a)), a) < positionIn(kidIds(t, parentIdOf(t, a)), b)

\* C15: reorderSibling(id, dir) with dir -1 or +1 exchanges id with the
\* adjacent sibling in that direction and changes nothing else; at the
\* boundary, or for an id that is not in the forest, the forest is unchanged.
C15_ReorderSwapsNeighbours ==
  [][(last'.op = "reorderSibling" /\ last'.index \in {-1, 1})
     => IF last'.id \notin idSet(tree) THEN tree' = tree
        ELSE LET pid == parentIdOf(tree, last'.id)
                 sibs == kidIds(tree, pid)
                 i    == positionIn(sibs, last'.id)
                 j    == i + last'.index
             IN  IF j \notin 1..Len(sibs) THEN tree' = tree
                 ELSE /\ kidIds(tree', pid) = swapped(sibs, i, j)
                      /\ idSet(tree') = idSet(tree)
                      /\ Len(idsOf(tree')) = Len(idsOf(tree))
                      /\ kidIds(tree', "root") = (IF pid = "root" THEN swapped(sibs, i, j)
                                                               ELSE kidIds(tree, "root"))
                      /\ \A x \in idSet(tree) :
                           /\ getNode(tree', x).toolId = getNode(tree, x).toolId
                           /\ getNode(tree', x).params = getNode(tree, x).params
                           /\ HasChildren(getNode(tree', x)) = HasChildren(getNode(tree, x))
                           /\ x # pid => kidIds(tree', x) = kidIds(tree, x)]_vars

C15_Witness ==
  /\ last.op = "reorderSibling"
  /\ last.id = "op_3"
  /\ last.index = -1
  /\ kidIds(tree, "root") = <<"op_1">>
  /\ kidIds(tree, "op_1") = <<"op_3", "op_2">>

\* C16: insertNode, addNode, removeNode, moveNode and updateParams keep the
\* relative order of any two nodes that are siblings under the same parent
\* both before and after the call and are not the node inserted or moved.
C16_SiblingOrderKept ==
  [][last'.op \in {"insertNode", "addNode", "removeNode", "moveNode", "updateParams"}
     => \A a \in idSet(tree) \cap idSet(tree'), b \in idSet(tree) \cap idSet(tree') :
          (/\ a # b
           /\ a # last'.id
           /\ b # last'.id
           /\ parentIdOf(tree, a) = parentIdOf(tree, b)
           /\ parentIdOf(tree', a) = parentIdOf(tree', b))
            => (before(tree, a, b) <=> before(tree', a, b))]_vars

C16_Witness ==
  /\ last.op = "moveNode"
  /\ last.id = "op_1"
  /\ kidIds(tree, "root") = <<"op_2", "op_3", "op_1">>

\* ------------------------------------------------------------------ persistence properties
\* what the stored text says about every field of state
parsed(s) ==
  [tree |-> s.tree.items, collapsed |-> newSet(s.collapsed.items),
   expanded |-> newSet(s.expanded.items), targetParentId |-> s.targetParentId.value,
   showGCode |-> s.showGCode.value]

RECURSIVE ancestorIds(_, _)
\* the ids of the parent, the grandparent, ... of the node id
ancestorIds(t, id) ==
  LET p == getParent(t, id)
  IN  IF p = null THEN {} ELSE {p.id} \cup ancestorIds(t, p.id)

\* C20: isDescendant(ancestorId, id) is true iff id is the id of a node
\* strictly inside the subtree rooted at ancestorId; it is false when id
\* equals ancestorId, when ancestorId is not in the forest or has no
\* children; it changes no state.
C20_IsDescendantStrict ==
  [][last'.op = "isDescendant"
     => /\ UNCHANGED <<tree, collapsed, expanded, targetParentId, showGCode, storage>>
        /\ last'.ret = (/\ last'.id \in idSet(tree)
                        /\ last'.parentId \in ancestorIds(tree, last'.id))
        /\ last'.id = last'.parentId => last'.ret = FALSE
        /\ last'.parentId \notin idSet(tree) => last'.ret = FALSE
        /\ (/\ last'.parentId \in idSet(tree)
            /\ childrenOf(getNode(tree, last'.parentId)) = <<>>) => last'.ret = FALSE]_vars

C20_Witness ==
  /\ last.op = "isDescendant"
  /\ last.parentId = "op_1"
  /\ last.id = "op_3"
  /\ last.ret = TRUE
  /\ parentIdOf(tree, "op_3") = "op_2"
  /\ parentIdOf(tree, "op_2") = "op_1"

\* ------------------------------------------------------------------ labels and loop indices
\* the label number that the if-block x emits in document d
labelOf(d, x) == d[lineAt(d, x, {"label"})].num

\* the index that the while-block w emits in document d
indexOf(d, w) == d[lineAt(d, w, {"while-do"})].num

\* C21: any two if-block nodes that are children of the same container node
\* emit the same label number in the output of generateGCode.
C21_SiblingLabelsRestart ==
  Generated =>
    \A a \in ifNodes(tree), b \in ifNodes(tree) :
      (/\ a # b
       /\ getParent(tree, a) # null
       /\ getParent(tree, b) # null
       /\ getParent(tree, a).id = getParent(tree, b).id
       /\ isContainerTool(getParent(tree, a).toolId)
       /\ linesOf(last.ret, a) # {}
       /\ linesOf(last.ret, b) # {})
        => labelOf(last.ret, a) = labelOf(last.ret, b)

C21_Witness ==
  /\ Generated
  /\ Len(tree) = 1
  /\ tree[1].toolId = "if-block"
  /\ Len(tree[1].children) = 2
  /\ tree[1].children[1].toolId = "if-block"
  /\ tree[1].children[2].toolId = "if-block"
  /\ labelOf(last.ret, "op_2") = 1000
  /\ labelOf(last.ret, "op_3") = 1000

\* C22: the index emitted by a while-block is min(k + 1, 9) where k is the
\* number of while-block ancestors of the node; enclosing folders and
\* if-blocks do not change it.
C22_IndexCountsLoopsOnly ==
  Generated =>
    \A w \in whileNodes(tree) :
      linesOf(last.ret, w) # {} =>
        LET k == Cardinality({a \in whileNodes(tree) : isDescendant(tree, a, w)})
        IN  indexOf(last.ret, w) = (IF k + 1 < 9 THEN k + 1 ELSE 9)

\* C23 as stated: a while-block nested at any depth inside another
\* while-block emits an index different from the outer one's.
C23_NestedLoopsDiffer ==
  Generated =>
    \A outer \in whileNodes(tree), inner \in whileNodes(tree) :
      (/\ isDescendant(tree, outer, inner)
       /\ linesOf(last.ret, outer) # {}
       /\ linesOf(last.ret, inner) # {})
        => indexOf(last.ret, inner) # indexOf(last.ret, outer)

\* C23 amended: a while-block nested at any depth inside a while-block whose
\* index is below 9 emits a greater index; inside a while-block that emits 9
\* every nested while-block emits 9 as well.
C23_NestedLoopsDifferBelowNine ==
  Generated =>
    \A outer \in whileNodes(tree), inner \in whileNodes(tree) :
      (/\ isDescendant(tree, outer, inner)
       /\ linesOf(last.ret, outer) # {}
       /\ linesOf(last.ret, inner) # {})
        => /\ indexOf(last.ret, outer) < 9
                => indexOf(last.ret, inner) > indexOf(last.ret, outer)
           /\ indexOf(last.ret, outer) = 9 => indexOf(last.ret, inner) = 9

C23_Witness ==
  /\ Generated
  /\ Cardinality(whileNodes(tree)) = 10
  /\ indexOf(last.ret, "op_8") = 8
  /\ indexOf(last.ret, "op_9") = 9
  /\ indexOf(last.ret, "op_10") = 9

\* ------------------------------------------------------------------ default destination
\* C24: state.targetParentId is root or the id of a container node that is
\* currently in the forest.
C24_TargetParentValid ==
  targetParentId = "root" \/ targetParentId \in containerIds(tree)

\* ------------------------------------------------------------------ updateParams properties
\* C25: updateParams(id, patch) replaces the params of node id by the shallow
\* merge of its old params and the patch (patch keys win, other keys kept)
\* and leaves unchanged the id, toolId and children of the node, the params
\* of every other node, the shape of the forest and the catalog's
\* defaultParams (a node added afterwards starts from them); for an id not
\* in the forest nothing changes.
C25_UpdateParamsNotStructural ==
  [][/\ last'.op = "updateParams"
          => IF last'.id \notin idSet(tree)
               THEN UNCHANGED <<tree, collapsed, expanded, targetParentId, showGCode,
                                storage, nextUid>>
               ELSE /\ \E patch \in PatchInputs :
                         LET old == getNode(tree, last'.id).params
                             new == getNode(tree', last'.id).params
                         IN  /\ DOMAIN new = (DOMAIN old) \cup (DOMAIN patch)
                             /\ \A k \in DOMAIN patch : new[k] = patch[k]
                             /\ \A k \in (DOMAIN old) \ (DOMAIN patch) : new[k] = old[k]
                    /\ idsOf(tree') = idsOf(tree)
                    /\ kidIds(tree', "root") = kidIds(tree, "root")
                    /\ \A x \in idSet(tree) :
                         /\ getNode(tree', x).toolId = getNode(tree, x).toolId
                         /\ HasChildren(getNode(tree', x)) = HasChildren(getNode(tree, x))
                         /\ kidIds(tree', x) = kidIds(tree, x)
                         /\ x # last'.id => getNode(tree', x).params = getNode(tree, x).params
                    /\ UNCHANGED <<collapsed, expanded, targetParentId, showGCode, nextUid>>
     /\ (last'.op = "addNode" /\ last'.id \in idSet(tree') \ idSet(tree))
          => getNode(tree', last'.id).params = TOOL_BY_ID[last'.toolId].defaultParams]_vars

C25_Witness ==
  /\ last.op = "updateParams"
  /\ last.id = "op_2"
  /\ kidIds(tree, "root") = <<"op_1">>
  /\ kidIds(tree, "op_1") = <<"op_2">>
  /\ getNode(tree, "op_1").params = TOOL_BY_ID["folder"].defaultParams
  /\ getNode(tree, "op_2").toolId = "folder"
  /\ getNode(tree, "op_2").params = [name |-> "Setup A", note |-> ""]

====
